---- MODULE Spec2Model ----
(***************************************************************************)
(* Model of nevergrad/common/decorators.py: class Registry(dict).          *)
(*                                                                         *)
(* A Registry is a dict (name -> object, here `entries`) with a side dict  *)
(* `_information` (name -> metadata dict, here `information`).  Metadata   *)
(* dicts are Python objects shared by reference, so they live in `heap`    *)
(* (address -> contents) and `information` holds addresses: a dict handed  *)
(* out by get_info, bound in a functools.partial or passed as `info` can   *)
(* be mutated by the caller and the registry sees the mutation.            *)
(* Assertions are enabled (the default interpreter mode).                  *)
(***************************************************************************)
EXTENDS Integers, FiniteSets, Sequences, TLC

(* ---------------------------- bounds ----------------------------------- *)
\* number of metadata dict objects that can be alive at once
NumAddr == 2

(* ---------------------------- universe --------------------------------- *)
\* Python's None for the `info` parameter / a missing reference
None == 0
\* an `info` argument that is not None and not a dict (e.g. a list)
NotADict == -1
Addr == 1..NumAddr
Names == {"f", "Foo"}
Keys == {"k"}
Vals == {1}
NoObj == "None"

\* the objects a caller registers: a function f, and an instance of a class
\* Foo (the instance has no __name__ attribute)
ObjAttrs ==
  [func_f   |-> [hasname |-> TRUE,  name |-> "f", class |-> "function"],
   inst_Foo |-> [hasname |-> FALSE, name |-> "",  class |-> "Foo"]]
Objects == DOMAIN ObjAttrs

\* contents of a metadata dict: a finite map from keys to values
EmptyDict == << >>
Dicts == UNION {[K -> Vals] : K \in SUBSET Keys}

(* ---------------------------- dict helpers ----------------------------- *)
\* d[k] = v
Put(d, k, v) == [x \in (DOMAIN d) \cup {k} |-> IF x = k THEN v ELSE d[x]]
\* del d[k]
Remove(d, k) == [x \in (DOMAIN d) \ {k} |-> d[x]]
Range(d) == {d[x] : x \in DOMAIN d}

VARIABLES entries, information, heap, decorator, op, awaiting
vars == <<entries, information, heap, decorator, op, awaiting>>

\* smallest unused address: where a newly constructed dict is placed
Fresh(h) == CHOOSE a \in Addr \ DOMAIN h : \A b \in Addr \ DOMAIN h : a <= b
HasFree(h) == Addr \ DOMAIN h # {}

\* dict objects still referenced by the registry or by the partial the caller
\* holds; unreferenced dicts are reclaimed
Collect(h, i, d) ==
  LET live == Range(i) \cup {p.keywords.info : p \in d}
  IN [a \in (DOMAIN h) \cap live |-> h[a]]

(* ---------------------------- the methods ------------------------------ *)
\* line 23: obj.__name__ if hasattr(obj, "__name__") else obj.__class__.__name__
DerivedName(obj) ==
  IF ObjAttrs[obj].hasname THEN ObjAttrs[obj].name ELSE ObjAttrs[obj].class

RegisterName_overwrite(e, i, name, obj, info) ==
  LET e2 == Put(e, name, obj)
  IN IF info = None
       THEN [entries |-> e2, information |-> i, err |-> ""]
       ELSE IF info = NotADict
         THEN [entries |-> e2, information |-> i, err |-> "AssertionError"]
         ELSE [entries |-> e2, information |-> Put(i, name, info), err |-> ""]

RegisterName_keeporphan(e, i, name, obj, info) ==
  IF name \in DOMAIN e
    THEN [entries |-> e, information |-> i, err |-> "RuntimeError"]
    ELSE LET e2 == Put(e, name, obj)
         IN IF info = None
              THEN [entries |-> e2, information |-> i, err |-> ""]
              ELSE IF info = NotADict
                THEN [entries |-> e2, information |-> i, err |-> "AssertionError"]
                ELSE [entries |-> e2,
                      information |-> IF name \in DOMAIN i THEN i
                                      ELSE Put(i, name, info),
                      err |-> ""]

\* Registry.register_name(name, obj, info)
RegisterName(e, i, name, obj, info) ==
  IF name \in DOMAIN e
    THEN [entries |-> e, information |-> i, err |-> "RuntimeError"]
    ELSE LET e2 == Put(e, name, obj)                       \* self[name] = obj
         IN IF info = None
              THEN [entries |-> e2, information |-> i, err |-> ""]
              ELSE IF info = NotADict                      \* assert isinstance
                THEN [entries |-> e2, information |-> i, err |-> "AssertionError"]
                ELSE [entries |-> e2, information |-> Put(i, name, info), err |-> ""]

Register_classname(e, i, obj, info) ==
  LET name == ObjAttrs[obj].class
      r == RegisterName(e, i, name, obj, info)
  IN [name |-> name, entries |-> r.entries, information |-> r.information,
      err |-> r.err, ret |-> IF r.err = "" THEN obj ELSE NoObj]

\* Registry.register(obj, info)
Register(e, i, obj, info) ==
  LET name == DerivedName(obj)
      r == RegisterName(e, i, name, obj, info)
  IN [name |-> name, entries |-> r.entries, information |-> r.information,
      err |-> r.err, ret |-> IF r.err = "" THEN obj ELSE NoObj]

Unregister_dropinfo(e, i, name) ==
  IF name \in DOMAIN e
    THEN [entries |-> Remove(e, name), information |-> Remove(i, name)]
    ELSE [entries |-> e, information |-> i]

\* Registry.unregister(name)
Unregister(e, i, name) ==
  IF name \in DOMAIN e
    THEN [entries |-> Remove(e, name), information |-> i]
    ELSE [entries |-> e, information |-> i]

RegisterWithInfo_noinfo(info) ==
  [func |-> "register", keywords |-> [info |-> None]]

\* Registry.register_with_info(**info): functools.partial(self.register, info=info)
\* `info` is the address of the dict the keyword arguments were collected in
RegisterWithInfo(info) ==
  [func |-> "register", keywords |-> [info |-> info]]

\* calling the partial: func(obj, **keywords)
PartialCall(p, e, i, obj) ==
  Register(e, i, obj, p.keywords.info)

GetInfo_setfirst(e, i, h, name) ==
  LET skip == name \in DOMAIN i \/ ~HasFree(h)
      i2 == IF skip THEN i ELSE Put(i, name, Fresh(h))
      h2 == IF skip THEN h ELSE Put(h, Fresh(h), EmptyDict)
  IN IF name \notin DOMAIN e
       THEN [information |-> i2, heap |-> h2, err |-> "ValueError", ret |-> None]
       ELSE [information |-> i2, heap |-> h2, err |-> "", ret |-> i2[name]]

GetInfo_reset(e, i, h, name) ==
  IF name \notin DOMAIN e
    THEN [information |-> i, heap |-> h, err |-> "ValueError", ret |-> None]
    ELSE LET a == IF name \in DOMAIN i THEN i[name] ELSE Fresh(h)
         IN [information |-> Put(i, name, a), heap |-> Put(h, a, EmptyDict),
             err |-> "", ret |-> a]

GetInfo_nostore(e, i, h, name) ==
  IF name \notin DOMAIN e
    THEN [information |-> i, heap |-> h, err |-> "ValueError", ret |-> None]
    ELSE IF name \in DOMAIN i
      THEN [information |-> i, heap |-> h, err |-> "", ret |-> i[name]]
      ELSE [information |-> i, heap |-> Put(h, Fresh(h), EmptyDict),
            err |-> "", ret |-> Fresh(h)]

\* Registry.get_info(name)
GetInfo(e, i, h, name) ==
  IF name \notin DOMAIN e
    THEN [information |-> i, heap |-> h, err |-> "ValueError", ret |-> None]
    ELSE IF name \in DOMAIN i                     \* setdefault(name, {})
      THEN [information |-> i, heap |-> h, err |-> "", ret |-> i[name]]
      ELSE [information |-> Put(i, name, Fresh(h)),
            heap |-> Put(h, Fresh(h), EmptyDict),
            err |-> "", ret |-> Fresh(h)]

(* ---------------------------- the state machine ------------------------ *)
\* the last call made on the registry: the method, the name it worked on (its
\* argument, or the local `name` of register), the exception it raised (""
\* when it returned) and the value it returned
Call(kind, name, err, retObj, retInfo) ==
  [kind |-> kind, name |-> name, err |-> err, retObj |-> retObj, retInfo |-> retInfo]

\* Registry.__init__
Init ==
  /\ entries = << >>
  /\ information = << >>
  /\ heap = << >>
  /\ decorator = {}
  /\ op = Call("init", "", "", NoObj, None)
  /\ awaiting = {}

NoInfo == [ref |-> None, val |-> EmptyDict]
BadInfo == [ref |-> NotADict, val |-> EmptyDict]

\* the `info` arguments a caller can pass: None, a non-dict, a dict that is
\* already referenced elsewhere, or a newly built dict with any contents
InfoArgs(h) ==
  {NoInfo, BadInfo}
  \cup {[ref |-> a, val |-> h[a]] : a \in DOMAIN h}
  \cup (IF HasFree(h) THEN {[ref |-> Fresh(h), val |-> c] : c \in Dicts} ELSE {})

\* the heap once the caller has built the dict it passes
WithArg(h, arg) == IF arg.ref \in Addr THEN Put(h, arg.ref, arg.val) ELSE h

\* names whose current registration supplied no info and whose metadata has
\* not been read since
Awaiting(aw, name, info, err) ==
  IF err = "" /\ info = None THEN aw \cup {name} ELSE aw \ {name}

DoRegisterName(name, obj, arg) ==
  LET r == RegisterName(entries, information, name, obj, arg.ref)
  IN /\ entries' = r.entries
     /\ information' = r.information
     /\ heap' = Collect(WithArg(heap, arg), r.information, decorator)
     /\ decorator' = decorator
     /\ op' = Call("register_name", name, r.err, NoObj, None)
     /\ awaiting' = IF r.err = "RuntimeError" THEN awaiting
                    ELSE Awaiting(awaiting, name, arg.ref, r.err)

CallRegisterName(name, obj) ==
  \E arg \in InfoArgs(heap) : DoRegisterName(name, obj, arg)

DoRegister(obj, arg) ==
  LET r == Register(entries, information, obj, arg.ref)
  IN /\ entries' = r.entries
     /\ information' = r.information
     /\ heap' = Collect(WithArg(heap, arg), r.information, decorator)
     /\ decorator' = decorator
     /\ op' = Call("register", r.name, r.err, r.ret, None)
     /\ awaiting' = IF r.err = "RuntimeError" THEN awaiting
                    ELSE Awaiting(awaiting, r.name, arg.ref, r.err)

CallRegister(obj) ==
  \E arg \in InfoArgs(heap) : DoRegister(obj, arg)

CallUnregister(name) ==
  LET r == Unregister(entries, information, name)
  IN /\ entries' = r.entries
     /\ information' = r.information
     /\ heap' = Collect(heap, r.information, decorator)
     /\ decorator' = decorator
     /\ op' = Call("unregister", name, "", NoObj, None)
     /\ awaiting' = awaiting \ {name}

\* the keyword arguments are collected in a new dict; the caller keeps the
\* returned partial (and drops the one held before)
CallRegisterWithInfo(kw) ==
  LET h0 == Collect(heap, information, {})
  IN /\ HasFree(h0)
     /\ decorator' = {RegisterWithInfo(Fresh(h0))}
     /\ heap' = Collect(Put(h0, Fresh(h0), kw), information, decorator')
     /\ UNCHANGED <<entries, information, awaiting>>
     /\ op' = Call("register_with_info", "", "", NoObj, None)

CallPartial(obj) ==
  \E p \in decorator :
    LET r == PartialCall(p, entries, information, obj)
    IN /\ entries' = r.entries
       /\ information' = r.information
       /\ heap' = Collect(heap, r.information, decorator)
       /\ decorator' = decorator
       /\ op' = Call("partial", r.name, r.err, r.ret, None)
       /\ awaiting' = IF r.err = "RuntimeError" THEN awaiting
                      ELSE Awaiting(awaiting, r.name, p.keywords.info, r.err)

\* setdefault(name, {}) needs room for the new dict when it stores one
CallGetInfo(name) ==
  /\ (name \in DOMAIN entries /\ name \notin DOMAIN information) => HasFree(heap)
  /\ LET r == GetInfo(entries, information, heap, name)
     IN /\ information' = r.information
        /\ heap' = Collect(r.heap, r.information, decorator)
        /\ op' = Call("get_info", name, r.err, NoObj, r.ret)
        /\ awaiting' = IF r.err = "" THEN awaiting \ {name} ELSE awaiting
  /\ UNCHANGED <<entries, decorator>>

\* the caller writes through a reference to a metadata dict it obtained from
\* get_info, passed as info, or bound in a partial: d[k] = v, or del d[k]
Mutate(a, k) ==
  /\ a \in DOMAIN heap
  /\ \/ \E v \in Vals : heap' = [heap EXCEPT ![a] = Put(heap[a], k, v)]
     \/ /\ k \in DOMAIN heap[a]
        /\ heap' = [heap EXCEPT ![a] = Remove(heap[a], k)]
  /\ op' = Call("mutate", "", "", NoObj, None)
  /\ UNCHANGED <<entries, information, decorator, awaiting>>

Next ==
  \/ \E name \in Names, obj \in Objects : CallRegisterName(name, obj)
  \/ \E obj \in Objects : CallRegister(obj)
  \/ \E name \in Names : CallUnregister(name)
  \/ \E kw \in Dicts : CallRegisterWithInfo(kw)
  \/ \E obj \in Objects : CallPartial(obj)
  \/ \E name \in Names : CallGetInfo(name)
  \/ \E a \in Addr, k \in Keys : Mutate(a, k)

Spec == Init /\ [][Next]_vars

TypeOK ==
  /\ DOMAIN information \subseteq Names
  /\ Range(information) \subseteq DOMAIN heap
  /\ DOMAIN heap \subseteq Addr
  /\ awaiting \subseteq DOMAIN entries
  /\ Cardinality(decorator) <= 1


(* ---------------------------- properties ------------------------------- *)
\* a call that raised `e` and left the registry exactly as it was
Rejected(e) ==
  /\ op'.err = e
  /\ entries' = entries
  /\ information' = information
  /\ heap' = heap

\* C1: registering under a name that is already present (register_name, or
\* register / a register_with_info decorator on an object whose derived name
\* is present) raises the collision error and leaves entries and information
\* exactly as before.
C1_CollisionRejected ==
  [][/\ (op'.kind = "register_name" /\ op'.name \in DOMAIN entries)
          => Rejected("RuntimeError")
     /\ \A obj \in Objects :
          (DerivedName(obj) \in DOMAIN entries /\ op'.kind \in {"register", "partial"}
             /\ (CallRegister(obj) \/ CallPartial(obj)))
            => Rejected("RuntimeError")]_vars

C1_Witness ==
  /\ op.kind = "register_name"
  /\ op.err = "RuntimeError"
  /\ op.name \in DOMAIN information
  /\ op.name \in DOMAIN entries

\* C2: register(o), with no info or with a dict, for an object whose derived
\* name n is not yet registered succeeds, returns o, stores o under n and
\* leaves every other entry as it was.
C2_RegisterStoresUnderDerivedName ==
  [][\A obj \in Objects : \A arg \in InfoArgs(heap) \ {BadInfo} :
       (DerivedName(obj) \notin DOMAIN entries /\ op'.kind = "register"
          /\ DoRegister(obj, arg))
         => /\ op'.err = ""
            /\ op'.retObj = obj
            /\ DOMAIN entries' = (DOMAIN entries) \cup {DerivedName(obj)}
            /\ entries'[DerivedName(obj)] = obj
            /\ \A m \in DOMAIN entries : entries'[m] = entries[m]]_vars

C2_Witness ==
  /\ op.kind = "register"
  /\ op.err = ""
  /\ op.retObj = "inst_Foo"
  /\ DOMAIN entries = {"f", "Foo"}
  /\ entries["Foo"] = "inst_Foo"

\* C3: when the current registration of a name supplied no info, the first
\* get_info(name) after it returns an empty mapping.
C3_FirstGetInfoIsEmpty ==
  [][(op'.kind = "get_info" /\ op'.name \in awaiting)
       => /\ op'.err = ""
          /\ heap'[op'.retInfo] = EmptyDict]_vars

\* C4: get_info of a name that is not registered raises the lookup error and
\* leaves entries and information untouched, also when an orphaned metadata
\* record of that name exists.
C4_GetInfoUnregisteredRejected ==
  [][(op'.kind = "get_info" /\ op'.name \notin DOMAIN entries)
       => Rejected("ValueError")]_vars

C4_Witness ==
  /\ op.kind = "get_info"
  /\ op.err = "ValueError"
  /\ op.name \in DOMAIN information
  /\ op.name \notin DOMAIN entries

\* C5: unregister(name) never raises, removes exactly that name from entries,
\* leaves information unchanged, and a second unregister(name) changes
\* nothing more.
C5_UnregisterRemovesOnlyEntry ==
  [][op'.kind = "unregister"
       => /\ op'.err = ""
          /\ DOMAIN entries' = (DOMAIN entries) \ {op'.name}
          /\ \A m \in DOMAIN entries' : entries'[m] = entries[m]
          /\ information' = information
          /\ heap' = heap
          /\ (op.kind = "unregister" /\ op.name = op'.name)
               => entries' = entries]_vars

C5_Witness ==
  /\ op.kind = "unregister"
  /\ op.name \notin DOMAIN entries
  /\ op.name \in DOMAIN information
  /\ entries # << >>

\* what register(obj, info=arg) does to the registry and what it returns
RegisterOutcome(obj, arg) ==
  LET r == Register(entries, information, obj, arg.ref)
  IN /\ entries' = r.entries
     /\ information' = r.information
     /\ heap' = Collect(WithArg(heap, arg), r.information, decorator)
     /\ op'.err = r.err
     /\ op'.retObj = r.ret

\* C6: register_with_info(k=v) binds a new dict {k: v}; applying the result
\* to obj has the outcome of register(obj, info=that dict): same error or
\* returned object, same entries and information, and on success obj is
\* stored under its derived name with that dict as its metadata.
C6_DecoratorIsRegisterWithInfo ==
  [][/\ \A kw \in Dicts :
          (op'.kind = "register_with_info" /\ CallRegisterWithInfo(kw))
            => \E p \in decorator' :
                 /\ p.keywords.info \in DOMAIN heap'
                 /\ p.keywords.info \notin Range(information)
                 /\ heap'[p.keywords.info] = kw
     /\ \A obj \in Objects :
          (op'.kind = "partial" /\ CallPartial(obj))
            => \E p \in decorator :
                 /\ p.keywords.info \in DOMAIN heap
                 /\ RegisterOutcome(obj, [ref |-> p.keywords.info,
                                          val |-> heap[p.keywords.info]])
                 /\ op'.err = ""
                      => /\ op'.retObj = obj
                         /\ DerivedName(obj) \in DOMAIN entries'
                         /\ entries'[DerivedName(obj)] = obj
                         /\ DerivedName(obj) \in DOMAIN information'
                         /\ information'[DerivedName(obj)] = p.keywords.info
                         /\ heap'[p.keywords.info] = heap[p.keywords.info]]_vars

C6_Witness ==
  /\ op.kind = "partial"
  /\ op.err = ""
  /\ op.retObj = "func_f"
  /\ "f" \in DOMAIN entries
  /\ entries["f"] = "func_f"
  /\ "f" \in DOMAIN information
  /\ heap[information["f"]] = [x \in {"k"} |-> 1]

\* C7: a register_name call that raises because info is not a mapping leaves
\* entries and information exactly as before the call.
C7_BadInfoLeavesRegistryUntouched ==
  [][\A name \in Names, obj \in Objects :
       (name \notin DOMAIN entries /\ op'.kind = "register_name"
          /\ DoRegisterName(name, obj, BadInfo))
         => /\ op'.err # ""
            /\ entries' = entries
            /\ information' = information]_vars

\* C8 as stated: get_info and register_with_info leave both entries and
\* information exactly as they were.
C8_Original ==
  [][op'.kind \in {"get_info", "register_with_info"}
       => /\ entries' = entries
          /\ information' = information]_vars

\* C8 amended: register_with_info leaves entries and information unchanged;
\* get_info leaves entries unchanged and changes information only for a
\* registered name that has no metadata record, by adding a new empty record
\* for that name; neither changes the contents of an existing record.
C8_OnlyGetInfoAddsEmptyRecord ==
  [][/\ op'.kind = "register_with_info"
          => /\ entries' = entries
             /\ information' = information
             /\ \A a \in Range(information) : heap'[a] = heap[a]
     /\ op'.kind = "get_info"
          => /\ entries' = entries
             /\ \A a \in Range(information) : heap'[a] = heap[a]
             /\ \/ information' = information
                \/ /\ op'.name \in DOMAIN entries
                   /\ op'.name \notin DOMAIN information
                   /\ op'.retInfo \notin DOMAIN heap
                   /\ information' = Put(information, op'.name, op'.retInfo)
                   /\ heap'[op'.retInfo] = EmptyDict]_vars

C8_Witness ==
  /\ op.kind = "get_info"
  /\ op.err = ""
  /\ op.name \in DOMAIN information
  /\ heap[op.retInfo] = EmptyDict
  /\ decorator # {}

\* C9: a successful register_name with a dict info stores that very dict as
\* the metadata of the name (replacing an orphaned record), leaves the records
\* of all other names alone, and while the registration stands the record is
\* not replaced and get_info(name) returns it.
C9_InfoStoredVerbatim ==
  [][/\ \A obj \in Objects : \A arg \in InfoArgs(heap) :
          (arg.ref \in Addr /\ op'.kind = "register_name" /\ op'.err = ""
             /\ DoRegisterName(op'.name, obj, arg))
            => /\ DOMAIN information' = (DOMAIN information) \cup {op'.name}
               /\ information'[op'.name] = arg.ref
               /\ heap'[arg.ref] = arg.val
               /\ \A m \in (DOMAIN information) \ {op'.name} :
                    /\ information'[m] = information[m]
                    /\ heap'[information[m]] = heap[information[m]]
     /\ \A name \in (DOMAIN entries) \cap (DOMAIN entries') \cap (DOMAIN information) :
          /\ name \in DOMAIN information'
          /\ information'[name] = information[name]
          /\ (op'.kind = "get_info" /\ op'.name = name)
               => (op'.err = "" /\ op'.retInfo = information[name])]_vars

C9_Witness ==
  /\ op.kind = "register_name"
  /\ op.err = ""
  /\ op.name \notin awaiting
  /\ DOMAIN information = Names
  /\ heap[information[op.name]] # EmptyDict
  /\ \E m \in Names \ {op.name} : information[m] # information[op.name]

\* C10: get_info of a registered name returns the stored record when there is
\* one, changing nothing; otherwise it stores a new empty record and returns
\* it; nothing but a new registration of the name replaces the record, and a
\* write through the record changes the contents of that one record only, so
\* later get_info calls return the same, mutated, record.
C10_GetInfoReturnsStoredRecord ==
  [][/\ (op'.kind = "get_info" /\ op'.name \in DOMAIN entries)
          => /\ op'.err = ""
             /\ IF op'.name \in DOMAIN information
                  THEN /\ op'.retInfo = information[op'.name]
                       /\ entries' = entries
                       /\ information' = information
                       /\ heap' = heap
                  ELSE /\ op'.retInfo \notin DOMAIN heap
                       /\ entries' = entries
                       /\ information' = Put(information, op'.name, op'.retInfo)
                       /\ heap' = Put(heap, op'.retInfo, EmptyDict)
     /\ \A name \in DOMAIN information :
          ~(name \notin DOMAIN entries /\ name \in DOMAIN entries')
            => /\ name \in DOMAIN information'
               /\ information'[name] = information[name]
     /\ op'.kind = "mutate"
          => /\ entries' = entries
             /\ information' = information
             /\ DOMAIN heap' = DOMAIN heap
             /\ Cardinality({b \in DOMAIN heap : heap'[b] # heap[b]}) <= 1]_vars

C10_Witness ==
  /\ op.kind = "get_info"
  /\ op.err = ""
  /\ op.name \in DOMAIN entries
  /\ information[op.name] = op.retInfo
  /\ heap[op.retInfo] # EmptyDict
====
